---- MODULE Spec2Model ----
(***************************************************************************)
(* State-machine model of zipline's metrics engine:                        *)
(*   zipline/finance/metrics/tracker.py  (MetricsTracker)                  *)
(*   zipline/finance/metrics/default.py  (the default metric units)        *)
(*                                                                         *)
(* Three specifications share the module.                                  *)
(*   Spec        the MetricsTracker: construction, handle_minute_close,    *)
(*               handle_market_close, handle_simulation_end, with every    *)
(*               call it makes on the ledger and on the metrics recorded   *)
(*               in `log`.                                                 *)
(*   UnitSpec    the metric units of default.py, their four hooks invoked  *)
(*               with the arguments of the hook signatures.                *)
(*   EngineSpec  the behaviours of both.                                   *)
(***************************************************************************)
EXTENDS Integers, Sequences, FiniteSets, TLC

VARIABLES
    \* ---- inputs of a simulation (both specifications)
    emission_rate,        \* 'daily' | 'minute'
    first_session,        \* session labels are the integers 0..CalLast
    last_session,
    capital_base,
    \* ---- MetricsTracker
    tpc,                  \* "new" | "ready" | "failed" | "ended" | "off"
    metrics,              \* the metrics argument: a sequence of metric kinds
    caller_metrics,       \* the caller's list of metrics, as it is now
    hook_impls,           \* per hook, the `registered` list bound at construction
    current_session,      \* self._current_session
    market_open,          \* self._market_open
    market_close,         \* self._market_close
    session_count,        \* self._session_count
    total_session_count,  \* self._total_session_count
    log,                  \* every call made on the ledger and on a metric hook, in order
    call_start,           \* Len(log) when the last tracker call began
    \* ---- the last call (both specifications)
    last_call,            \* [op, arg]: the operation last invoked and its session / dt
    packet,               \* the packet the last call built
    raised,               \* the exception the last call propagated, or "none"
    bars,                 \* bars closed in the session the caller is in
    \* ---- metric units of default.py
    upc,                  \* "new" | "started" | "ended" | "off"
    order,                \* iteration order of the metric collection
    ledger,               \* the ledger's read model
    benchmark_source,     \* benchmark_source.daily_returns(first, last)
    units,                \* private state of every unit
    closed                \* number of end_of_session dispatches so far

vars == <<emission_rate, first_session, last_session, capital_base, tpc, metrics,
          caller_metrics, hook_impls, current_session, market_open, market_close, session_count,
          total_session_count, log, call_start, last_call, packet, raised, bars,
          upc, order, ledger, benchmark_source, units, closed>>

trackerVars == <<tpc, metrics, caller_metrics, hook_impls, current_session, market_open, market_close,
                 session_count, total_session_count, log, call_start>>

unitVars == <<upc, order, ledger, benchmark_source, units, closed>>

inputVars == <<emission_rate, first_session, last_session, capital_base>>

(***************************************************************************)
(* Bounds of the model.                                                    *)
(***************************************************************************)
\* the trading calendar knows the sessions 0..CalLast
CalLast == 3
\* at most this many metrics are registered with a tracker
MaxMetrics == 2
\* at most this many bars are closed per session
MaxBars == 1
\* the unit specification runs over at most this many sessions
MaxSessions == 2

EmissionRates == {"daily", "minute"}
CapitalBases == {100, 100000}

\* next_session = None (tracker.py line 226)
None == -1

NoPacket == [kind |-> "none"]
EmptyMap == <<>>

(***************************************************************************)
(* The trading calendar (external collaborator of the tracker).            *)
(***************************************************************************)
sessions_in_range(first, last) == [i \in 1..(last - first + 1) |-> first + i - 1]

open_and_close_for_session(s) == <<2 * s, 2 * s + 1>>

\* next_session_label raises NoFurtherDataError for the calendar's last session
NoFurtherData(s) == s >= CalLast

next_session_label(s) == s + 1

(***************************************************************************)
(* Metrics as the tracker sees them: which hooks an object defines, and    *)
(* how many arguments each hook takes.                                     *)
(***************************************************************************)
_hooks == <<"start_of_simulation", "end_of_bar", "end_of_session", "end_of_simulation">>

DefaultKinds == {"SimpleLedgerField", "StartOfPeriodLedgerField", "Returns",
                 "BenchmarkReturns", "PNL", "CashFlow"}

\* caller-supplied metrics: hooks declared with *args
CallerKinds == {"CallerAll", "CallerSessionOnly"}

\* hasattr(metric, hook)
Implements(kind, hook) ==
    CASE kind \in {"SimpleLedgerField", "Returns", "BenchmarkReturns", "PNL"} -> TRUE
      [] kind \in {"StartOfPeriodLedgerField", "CashFlow"} -> hook # "end_of_simulation"
      [] kind = "CallerAll" -> TRUE
      [] kind = "CallerSessionOnly" -> hook \in {"end_of_session", "end_of_simulation"}
      [] OTHER -> FALSE

\* number of parameters (after self) of the hooks of default.py
HookParams(hook) ==
    CASE hook = "start_of_simulation" -> 5
      [] hook = "end_of_bar" -> 4
      [] hook = "end_of_session" -> 4
      [] hook = "end_of_simulation" -> 2

\* the parameters (after self) of start_of_simulation in default.py
start_of_simulation_params ==
    <<"ledger", "emission_rate", "trading_calendar", "sessions", "benchmark_source">>

\* whether impl(*args) binds nargs positional arguments
Accepts(kind, hook, nargs) ==
    IF kind \in CallerKinds THEN TRUE ELSE HookParams(hook) = nargs

\* whether the kind's end_of_bar assigns packet['minute_perf'][...]: every unit
\* of default.py does, and so does a caller's metric that follows the hook
\* contract
WritesMinutePerf(kind) == kind \in DefaultKinds \cup {"CallerAll"}

\* the exception the body of the hook raises on the packet it is given
HookBodyRaises(kind, hook, pkt) ==
    IF hook = "end_of_bar" /\ WritesMinutePerf(kind) /\ "minute_perf" \notin DOMAIN pkt
    THEN "KeyError"
    ELSE "none"

\* the metric kinds the tracker specification registers
TrackedKinds == CallerKinds \cup {"PNL", "CashFlow"}

MetricLists == UNION {[1..n -> TrackedKinds] : n \in 0..MaxMetrics}

\* registered = [getattr(metric, hook) for metric in metrics if it has it]
registered(ms, hook) ==
    SelectSeq([i \in 1..Len(ms) |-> i], LAMBDA i : Implements(ms[i], hook))

HookCall(hook, m, arg) == [hook |-> hook, metric |-> m, arg |-> arg]

LedgerCall(op, arg) == [hook |-> op, metric |-> 0, arg |-> arg]

\* for hook in self._hooks: ... setattr(self, hook, hook_implementation)
bind_hooks(ms) == [i \in 1..Len(_hooks) |-> registered(ms, _hooks[i])]

NoHooks == [i \in 1..Len(_hooks) |-> <<>>]

HookIndex(hook) == CHOOSE i \in 1..Len(_hooks) : _hooks[i] = hook

\* for impl in registered: impl(*args, **kwargs)
\* a call that does not bind its arguments never runs the hook; one whose body
\* raises has run it; either ends the loop
RECURSIVE CallImpls(_, _, _, _, _, _)
CallImpls(reg, ms, hook, nargs, arg, pkt) ==
    IF reg = <<>> THEN [calls |-> <<>>, raised |-> "none"]
    ELSE IF ~Accepts(ms[Head(reg)], hook, nargs)
         THEN [calls |-> <<>>, raised |-> "TypeError"]
         ELSE IF HookBodyRaises(ms[Head(reg)], hook, pkt) # "none"
              THEN [calls |-> <<HookCall(hook, Head(reg), arg)>>,
                    raised |-> HookBodyRaises(ms[Head(reg)], hook, pkt)]
              ELSE LET rest == CallImpls(Tail(reg), ms, hook, nargs, arg, pkt)
                   IN  [calls |-> <<HookCall(hook, Head(reg), arg)>> \o rest.calls,
                        raised |-> rest.raised]

\* a dispatch that looks the implementations up in the caller's list on every call
hook_implementation_rediscovers(impls, ms, hook, nargs, arg, pkt) ==
    CallImpls(registered(caller_metrics, hook), caller_metrics, hook, nargs, arg, pkt)

\* self.<hook>(*args): the closure over the list bound at construction
hook_implementation(impls, ms, hook, nargs, arg, pkt) ==
    CallImpls(impls[HookIndex(hook)], ms, hook, nargs, arg, pkt)

(***************************************************************************)
(* Rational numbers <<numerator, denominator>>, denominator > 0, in        *)
(* lowest terms: the values of true division and of returns.               *)
(***************************************************************************)
Abs(x) == IF x < 0 THEN -x ELSE x

RECURSIVE Gcd(_, _)
Gcd(a, b) == IF b = 0 THEN a ELSE Gcd(b, a % b)

RNorm(q) ==
    LET g == Gcd(Abs(q[1]), q[2])
    IN  IF g = 0 THEN <<0, 1>> ELSE <<q[1] \div g, q[2] \div g>>

RInt(n) == <<n, 1>>
RAdd(p, q) == RNorm(<<p[1] * q[2] + q[1] * p[2], p[2] * q[2]>>)
RSub(p, q) == RNorm(<<p[1] * q[2] - q[1] * p[2], p[2] * q[2]>>)
RMul(p, q) == RNorm(<<p[1] * q[1], p[2] * q[2]>>)
RDiv(n, d) == RNorm(<<n, d>>)
RLeq(p, q) == p[1] * q[2] <= q[1] * p[2]

(***************************************************************************)
(* MetricsTracker                                                          *)
(***************************************************************************)
\* the progress accessor bound at construction (tracker.py lines 113-121)
progress_off_by_one ==
    IF emission_rate = "minute" THEN RInt(1)
    ELSE RDiv(session_count - 1, total_session_count)

progress ==
    IF emission_rate = "minute" THEN RInt(1)
    ELSE RDiv(session_count, total_session_count)

\* try: next_session = cal.next_session_label(s) except NoFurtherDataError: None
TryNextSession(completed_session) ==
    IF NoFurtherData(completed_session) THEN None
    ELSE next_session_label(completed_session)

NextIsIrrelevant_no_none_check(next_session) ==
    next_session # None /\ next_session >= last_session

\* (next_session is None) or (next_session >= self._last_session)
NextIsIrrelevant(next_session) ==
    (next_session = None) \/ (next_session >= last_session)

\* the packet handle_market_close builds (tracker.py lines 228-239)
market_close_packet(open, close) ==
    [kind |-> "market_close",
     period_start |-> first_session,
     period_end |-> last_session,
     capital_base |-> capital_base,
     daily_perf |-> [period_open |-> open, period_close |-> close],
     cumulative_perf |-> EmptyMap,
     progress |-> "self.progress",
     cumulative_risk_metrics |-> EmptyMap]

MarketClosePacket == market_close_packet(market_open, market_close)

\* self.start_of_simulation(emission_rate, trading_calendar, sessions, benchmark_source)
start_of_simulation_args ==
    <<"emission_rate", "trading_calendar", "sessions", "benchmark_source">>

\* packet = {} (handle_minute_close, handle_simulation_end)
EmptyPacket(kind) == [kind |-> kind]

TrackerInit ==
    /\ emission_rate \in EmissionRates
    /\ first_session \in 0..CalLast
    /\ last_session \in first_session..CalLast
    /\ capital_base \in CapitalBases
    /\ metrics \in MetricLists
    /\ caller_metrics = metrics
    /\ hook_impls = NoHooks
    /\ tpc = "new"
    /\ current_session = None
    /\ market_open = None
    /\ market_close = None
    /\ session_count = 0
    /\ total_session_count = 0
    /\ log = <<>>
    /\ call_start = 0
    /\ last_call = [op |-> "none", arg |-> None]
    /\ packet = NoPacket
    /\ raised = "none"
    /\ bars = 0
    /\ upc = "off"
    /\ order = <<>>
    /\ ledger = [pnl |-> 0]
    /\ benchmark_source = <<>>
    /\ units = [off |-> TRUE]
    /\ closed = 0

\* MetricsTracker.__init__
Construct ==
    /\ tpc = "new"
    /\ LET sessions == sessions_in_range(first_session, last_session)
           d == hook_implementation(bind_hooks(metrics), metrics, "start_of_simulation",
                                    Len(start_of_simulation_args),
                                    start_of_simulation_args, NoPacket)
       IN  /\ current_session' = first_session
           /\ market_open' = open_and_close_for_session(first_session)[1]
           /\ market_close' = open_and_close_for_session(first_session)[2]
           /\ session_count' = 0
           /\ total_session_count' = Len(sessions)
           /\ call_start' = Len(log)
           /\ log' = log \o d.calls
           /\ raised' = d.raised
           /\ tpc' = IF d.raised = "none" THEN "ready" ELSE "failed"
    /\ hook_impls' = bind_hooks(metrics)
    /\ last_call' = [op |-> "__init__", arg |-> first_session]
    /\ UNCHANGED <<metrics, caller_metrics, packet, bars>>
    /\ UNCHANGED inputVars
    /\ UNCHANGED unitVars

\* MetricsTracker.handle_minute_close(dt, data_portal); dt is the bar's number
handle_minute_close ==
    /\ tpc = "ready"
    /\ bars < MaxBars
    /\ session_count < total_session_count
    /\ LET dt == bars + 1
           d == hook_implementation(hook_impls, metrics, "end_of_bar", 4, dt,
                                    EmptyPacket("minute_close"))
       IN  /\ call_start' = Len(log)
           /\ log' = log \o <<LedgerCall("sync_last_sale_prices", dt)>> \o d.calls
           /\ raised' = d.raised
           /\ packet' = IF d.raised = "none" THEN EmptyPacket("minute_close") ELSE NoPacket
           /\ last_call' = [op |-> "handle_minute_close", arg |-> dt]
    /\ bars' = bars + 1
    /\ UNCHANGED <<tpc, metrics, caller_metrics, hook_impls, current_session, market_open, market_close,
                   session_count, total_session_count>>
    /\ UNCHANGED inputVars
    /\ UNCHANGED unitVars

\* MetricsTracker.handle_market_close(dt, data_portal)
handle_market_close ==
    /\ tpc = "ready"
    /\ session_count < total_session_count
    /\ LET completed_session == current_session
           dt == bars
           sync == IF emission_rate = "daily"
                   THEN <<LedgerCall("sync_last_sale_prices", dt)>> ELSE <<>>
           next_session == TryNextSession(completed_session)
           d == hook_implementation(hook_impls, metrics, "end_of_session", 4,
                                    completed_session, MarketClosePacket)
           returns_early == d.raised # "none" \/ NextIsIrrelevant(next_session)
       IN  /\ session_count' = session_count + 1
           /\ call_start' = Len(log)
           /\ log' = log \o sync
                         \o <<LedgerCall("ledger.end_of_session", completed_session)>>
                         \o d.calls
                         \o (IF returns_early THEN <<>>
                             ELSE <<LedgerCall("ledger.process_dividends", next_session)>>)
           /\ raised' = d.raised
           /\ packet' = IF d.raised = "none" THEN MarketClosePacket ELSE NoPacket
           /\ last_call' = [op |-> "handle_market_close", arg |-> completed_session]
           /\ IF returns_early
              THEN UNCHANGED <<current_session, market_open, market_close>>
              ELSE /\ current_session' = next_session
                   /\ market_open' = open_and_close_for_session(next_session)[1]
                   /\ market_close' = open_and_close_for_session(next_session)[2]
    /\ bars' = 0
    /\ UNCHANGED <<tpc, metrics, caller_metrics, hook_impls, total_session_count>>
    /\ UNCHANGED inputVars
    /\ UNCHANGED unitVars

\* MetricsTracker.handle_simulation_end()
handle_simulation_end ==
    /\ tpc = "ready"
    /\ session_count = total_session_count
    /\ LET d == hook_implementation(hook_impls, metrics, "end_of_simulation", 2, 0,
                                    EmptyPacket("simulation_end"))
       IN  /\ call_start' = Len(log)
           /\ log' = log \o d.calls
           /\ raised' = d.raised
           /\ packet' = IF d.raised = "none" THEN EmptyPacket("simulation_end") ELSE NoPacket
    /\ last_call' = [op |-> "handle_simulation_end", arg |-> None]
    /\ tpc' = "ended"
    /\ UNCHANGED <<metrics, caller_metrics, hook_impls, current_session, market_open, market_close,
                   session_count, total_session_count, bars>>
    /\ UNCHANGED inputVars
    /\ UNCHANGED unitVars

\* the caller changes the list it passed to the tracker, after construction:
\* it appends a metric or removes the last one
CallerEditsMetrics ==
    /\ tpc = "ready"
    /\ caller_metrics = metrics
    /\ \/ /\ Len(metrics) < MaxMetrics
          /\ caller_metrics' = Append(metrics, "CallerAll")
       \/ /\ Len(metrics) > 0
          /\ caller_metrics' = SubSeq(metrics, 1, Len(metrics) - 1)
    /\ UNCHANGED <<tpc, metrics, hook_impls, current_session, market_open, market_close,
                   session_count, total_session_count, log, call_start>>
    /\ last_call' = [op |-> "caller_edits_metrics", arg |-> None]
    /\ UNCHANGED <<packet, raised, bars>>
    /\ UNCHANGED inputVars
    /\ UNCHANGED unitVars

Next ==
    \/ Construct
    \/ handle_minute_close
    \/ handle_market_close
    \/ handle_simulation_end
    \/ CallerEditsMetrics

Spec == TrackerInit /\ [][Next]_vars

(***************************************************************************)
(* pandas Series: an index of labels and the values at them.  Session      *)
(* labels are timestamps, so an integer key is a position (negative        *)
(* positions count from the end) and a label key is looked up in the       *)
(* index; assigning to a label the index lacks enlarges the series.        *)
(***************************************************************************)
Series(value, index) == [index |-> index, values |-> [i \in 1..Len(index) |-> value]]

SeriesOf(values, index) == [index |-> index, values |-> values]

LabelPos(s, label) ==
    IF \E i \in 1..Len(s.index) : s.index[i] = label
    THEN CHOOSE i \in 1..Len(s.index) : s.index[i] = label
    ELSE 0

HasLabel(s, label) == LabelPos(s, label) # 0

\* s[label]
SeriesGetLabel(s, label) == s.values[LabelPos(s, label)]

\* s[label] = v
SeriesSetLabel(s, label, v) ==
    IF HasLabel(s, label)
    THEN [s EXCEPT !.values[LabelPos(s, label)] = v]
    ELSE [index |-> Append(s.index, label), values |-> Append(s.values, v)]

\* the 1-based place of python position i
Place(s, i) == IF i < 0 THEN Len(s.values) + i + 1 ELSE i + 1

PosInRange(s, i) == Place(s, i) \in 1..Len(s.values)

\* s[i]
SeriesGetPos(s, i) == s.values[Place(s, i)]

\* s[i] = v
SeriesSetPos(s, i, v) == [s EXCEPT !.values[Place(s, i)] = v]

tolist(s) == s.values

\* (1 + s)
OnePlus(s) == [s EXCEPT !.values = [i \in 1..Len(s.values) |-> RAdd(RInt(1), s.values[i])]]

\* s - 1
MinusOne(s) == [s EXCEPT !.values = [i \in 1..Len(s.values) |-> RSub(s.values[i], RInt(1))]]

\* s.prod(): left fold of the values
RECURSIVE ProdUpTo(_, _)
ProdUpTo(vals, n) == IF n = 0 THEN RInt(1) ELSE RMul(ProdUpTo(vals, n - 1), vals[n])

prod(s) == ProdUpTo(s.values, Len(s.values))

\* s.cumprod(): the running products
cumprod(s) == [s EXCEPT !.values = [i \in 1..Len(s.values) |-> ProdUpTo(s.values, i)]]

(***************************************************************************)
(* Packets: mappings from keys to values; sub-mappings under               *)
(* 'minute_perf', 'daily_perf', 'cumulative_perf'.                         *)
(***************************************************************************)
Put(m, k, v) == [x \in (DOMAIN m) \cup {k} |-> IF x = k THEN v ELSE m[x]]

Call(pkt) == [packet |-> pkt, raised |-> "none"]

\* packet[sub][k] = v, a KeyError when the packet has no mapping under sub
Write(c, sub, k, v) ==
    IF c.raised # "none" THEN c
    ELSE IF sub \notin DOMAIN c.packet THEN [c EXCEPT !.raised = "KeyError"]
    ELSE [c EXCEPT !.packet = Put(c.packet, sub, Put(c.packet[sub], k, v))]

\* packet[k] = v
WriteTop(c, k, v) ==
    IF c.raised # "none" THEN c ELSE [c EXCEPT !.packet = Put(c.packet, k, v)]

Result(self, c) == [self |-> self, packet |-> c.packet, raised |-> c.raised]

\* the value a hook reads before start_of_simulation has set it
Unset == [unset |-> TRUE]

NaN == "nan"

(***************************************************************************)
(* ExplodingObject (zipline.utils.exploding_object): a placeholder that    *)
(* can be built and stored, and raises naming itself on any access.        *)
(***************************************************************************)
ExplodingObject(name) == [exploding |-> name]

IsExploding(x) == "exploding" \in DOMAIN x

ExplodingError(x) == "ExplodingObject accessed: " \o x.exploding

(***************************************************************************)
(* The metric units of default.py.  Every hook is an operator from the     *)
(* unit's private state (self) and the hook's arguments to                 *)
(* [self, packet, raised]: the state and the packet it leaves behind and   *)
(* the exception it raises ("none" when it returns).                       *)
(***************************************************************************)
\* ---- SimpleLedgerField(ledger_field, packet_field=None)
\* a ledger_field is a dotted path, kept as the sequence of its components;
\* an omitted packet_field is <<>>
\* ledger_field.rsplit('.', 1)[-1]
LastComponent(ledger_field) == ledger_field[Len(ledger_field)]

\* op.attrgetter(ledger_field)(ledger): the ledger's read model keeps the
\* scalars of ledger.portfolio under their own names
attrgetter(ledger_field, ldg) == ldg[LastComponent(ledger_field)]

SimpleLedgerField__init__(ledger_field, packet_field) ==
    [ledger_field |-> ledger_field,
     packet_field |-> IF packet_field = <<>> THEN LastComponent(ledger_field)
                      ELSE packet_field[1]]

SimpleLedgerField_get_ledger_field(self, ldg) == attrgetter(self.ledger_field, ldg)

SimpleLedgerField_start_of_simulation(self, ldg, rate, sessions, bsrc) ==
    [self |-> [ledger_field |-> self.ledger_field, packet_field |-> self.packet_field,
               daily_value |-> Series(NaN, sessions)],
     packet |-> NoPacket, raised |-> "none"]

SimpleLedgerField_end_of_bar(self, pkt, ldg, dt) ==
    Result(self, Write(Call(pkt), "minute_perf", self.packet_field,
                       SimpleLedgerField_get_ledger_field(self, ldg)))

SimpleLedgerField_end_of_session_next_label(self, pkt, ldg, session) ==
    LET value == SimpleLedgerField_get_ledger_field(self, ldg)
        w == Write(Call(pkt), "daily_perf", self.packet_field, value)
    IN  IF w.raised # "none" THEN Result(self, w)
        ELSE Result([self EXCEPT !.daily_value = SeriesSetLabel(@, session + 1, value)], w)

SimpleLedgerField_end_of_session(self, pkt, ldg, session) ==
    LET value == SimpleLedgerField_get_ledger_field(self, ldg)
        w == Write(Call(pkt), "daily_perf", self.packet_field, value)
    IN  IF w.raised # "none" THEN Result(self, w)
        ELSE Result([self EXCEPT !.daily_value = SeriesSetLabel(@, session, value)], w)

SimpleLedgerField_end_of_simulation(self, pkt, ldg) ==
    Result(self, WriteTop(Call(pkt), self.packet_field, tolist(self.daily_value)))

\* ---- StartOfPeriodLedgerField(ledger_field, packet_field=None)
StartOfPeriodLedgerField__init__(ledger_field, packet_field) ==
    [ledger_field |-> ledger_field,
     packet_field |-> IF packet_field = <<>> THEN LastComponent(ledger_field)
                      ELSE packet_field[1]]

StartOfPeriodLedgerField_get_ledger_field(self, ldg) == attrgetter(self.ledger_field, ldg)

StartOfPeriodLedgerField_start_of_simulation(self, ldg, rate, sessions, bsrc) ==
    [self |-> [ledger_field |-> self.ledger_field, packet_field |-> self.packet_field,
               previous_day |-> StartOfPeriodLedgerField_get_ledger_field(self, ldg)],
     packet |-> NoPacket, raised |-> "none"]

StartOfPeriodLedgerField_end_of_bar(self, pkt, ldg, dt) ==
    Result(self, Write(Call(pkt), "minute_perf", self.packet_field, self.previous_day))

StartOfPeriodLedgerField_end_of_session(self, pkt, ldg, session) ==
    LET w == Write(Call(pkt), "daily_perf", self.packet_field, self.previous_day)
    IN  IF w.raised # "none" THEN Result(self, w)
        ELSE Result([self EXCEPT !.previous_day =
                        StartOfPeriodLedgerField_get_ledger_field(self, ldg)], w)

\* ---- Returns
Returns_start_of_simulation(self, ldg, rate, sessions, bsrc) ==
    [self |-> [previous_total_returns |-> RInt(0)],
     packet |-> NoPacket, raised |-> "none"]

\* (previous + 1) / (current + 1) - 1
Returns_todays_returns(previous, current) ==
    LET n == RAdd(previous, RInt(1))
        d == RAdd(current, RInt(1))
        q == IF d[1] < 0 THEN <<-(n[1] * d[2]), -(n[2] * d[1])>>
                         ELSE <<n[1] * d[2], n[2] * d[1]>>
    IN  RSub(RNorm(q), RInt(1))

Returns_end_of_bar(self, pkt, ldg, dt) ==
    LET current_total_returns == ldg.returns
    IN  IF RAdd(current_total_returns, RInt(1)) = RInt(0)
        THEN Result(self, [packet |-> pkt, raised |-> "ZeroDivisionError"])
        ELSE Result(self,
                Write(Write(Call(pkt), "minute_perf", "returns",
                            Returns_todays_returns(self.previous_total_returns,
                                                   current_total_returns)),
                      "cumulative_perf", "returns", current_total_returns))

Returns_end_of_session(self, pkt, ldg, session) ==
    IF ~HasLabel(ldg.daily_returns, session)
    THEN Result(self, [packet |-> pkt, raised |-> "KeyError"])
    ELSE LET w == Write(Write(Call(pkt), "daily_perf", "returns",
                              SeriesGetLabel(ldg.daily_returns, session)),
                        "cumulative_perf", "returns", ldg.returns)
         IN  IF w.raised # "none" THEN Result(self, w)
             ELSE Result([self EXCEPT !.previous_total_returns = ldg.returns], w)

Returns_end_of_simulation_no_minus_one(self, pkt, ldg) ==
    Result(self,
        WriteTop(WriteTop(Call(pkt), "cumulative_algorithm_returns",
                          prod(OnePlus(ldg.daily_returns))),
                 "daily_algorithm_returns", tolist(ldg.daily_returns)))

Returns_end_of_simulation(self, pkt, ldg) ==
    Result(self,
        WriteTop(WriteTop(Call(pkt), "cumulative_algorithm_returns",
                          RSub(prod(OnePlus(ldg.daily_returns)), RInt(1))),
                 "daily_algorithm_returns", tolist(ldg.daily_returns)))

\* ---- PNL
PNL_start_of_simulation(self, ldg, rate, sessions, bsrc) ==
    [self |-> [pnl_index |-> -1, pnl |-> Series(0, sessions)],
     packet |-> NoPacket, raised |-> "none"]

PNL_compute_pnl_in_period_swapped(self, ldg) ==
    SeriesGetPos(self.pnl, self.pnl_index) - ldg.pnl

PNL_compute_pnl_in_period(self, ldg) ==
    ldg.pnl - SeriesGetPos(self.pnl, self.pnl_index)

PNL_end_of_bar(self, pkt, ldg, dt) ==
    Result(self,
        Write(Write(Call(pkt), "minute_perf", "pnl", PNL_compute_pnl_in_period(self, ldg)),
              "cumulative_perf", "pnl", ldg.pnl))

PNL_end_of_session(self, pkt, ldg, session) ==
    LET w == Write(Write(Call(pkt), "daily_perf", "pnl",
                         PNL_compute_pnl_in_period(self, ldg)),
                   "cumulative_perf", "pnl", ldg.pnl)
        advanced == [self EXCEPT !.pnl_index = @ + 1]
    IN  IF w.raised # "none" THEN Result(self, w)
        ELSE IF ~PosInRange(self.pnl, advanced.pnl_index)
             THEN Result(advanced, [w EXCEPT !.raised = "IndexError"])
             ELSE Result([advanced EXCEPT
                             !.pnl = SeriesSetPos(@, advanced.pnl_index, ldg.pnl)], w)

PNL_end_of_simulation(self, pkt, ldg) ==
    Result(self,
        WriteTop(WriteTop(Call(pkt), "total_pnl", ldg.pnl),
                 "daily_pnl", tolist(self.pnl)))

\* ---- CashFlow
CashFlow_start_of_simulation(self, ldg, rate, sessions, bsrc) ==
    [self |-> [previous_cash_flow |-> 0], packet |-> NoPacket, raised |-> "none"]

CashFlow_end_of_bar_stores_cash_flow(self, pkt, ldg, dt) ==
    LET cash_flow == ldg.cash_flow
        w == Write(Write(Call(pkt), "minute_perf", "capital_used",
                         self.previous_cash_flow - cash_flow),
                   "cumulative_perf", "pnl", cash_flow)
    IN  Result([self EXCEPT !.previous_cash_flow = cash_flow], w)

CashFlow_end_of_bar(self, pkt, ldg, dt) ==
    LET cash_flow == ldg.cash_flow
    IN  Result(self,
            Write(Write(Call(pkt), "minute_perf", "capital_used",
                        self.previous_cash_flow - cash_flow),
                  "cumulative_perf", "pnl", cash_flow))

CashFlow_end_of_session(self, pkt, ldg, session) ==
    LET cash_flow == ldg.cash_flow
        w == Write(Write(Call(pkt), "daily_perf", "capital_used",
                         self.previous_cash_flow - cash_flow),
                   "cumulative_perf", "cash_flow", cash_flow)
    IN  IF w.raised # "none" THEN Result(self, w)
        ELSE Result([self EXCEPT !.previous_cash_flow = cash_flow], w)

\* ---- BenchmarkReturns
\* the benchmark source: one return per session; within a session the last of
\* its MaxBars minutes carries the session's return and the others none
daily_returns(bsrc, sessions) == SeriesOf(bsrc, sessions)

get_range(bsrc, sessions) ==
    LET n == Len(sessions) * MaxBars
        day(i) == ((i - 1) \div MaxBars) + 1
        bar(i) == ((i - 1) % MaxBars) + 1
    IN  SeriesOf([i \in 1..n |-> IF bar(i) = MaxBars THEN bsrc[day(i)] ELSE RInt(0)],
                 [i \in 1..n |-> <<sessions[day(i)], bar(i)>>])

\* returns.groupby(TimeGrouper('D')).apply(lambda g: (g + 1).cumprod() - 1)
GroupedByDay(returns) ==
    LET n == Len(returns.values)
        sameDay(i, j) == returns.index[i][1] = returns.index[j][1]
        start(i) == CHOOSE j \in 1..i :
                        sameDay(i, j) /\ \A k \in 1..(j - 1) : ~sameDay(i, k)
        group(i) == SubSeq(OnePlus(returns).values, start(i), i)
    IN  [returns EXCEPT !.values =
            [i \in 1..n |-> RSub(ProdUpTo(group(i), Len(group(i))), RInt(1))]]

BenchmarkReturns_start_of_simulation_swapped(self, ldg, rate, sessions, bsrc) ==
    LET daily == daily_returns(bsrc, sessions)
        returns == get_range(bsrc, sessions)
    IN  [self |->
            [daily_returns |-> daily,
             daily_cumulative_returns |-> MinusOne(cumprod(OnePlus(daily))),
             minute_returns |->
                 IF rate = "minute" THEN ExplodingObject("self._minute_returns")
                 ELSE GroupedByDay(returns),
             minute_cumulative_returns |->
                 IF rate = "minute"
                 THEN ExplodingObject("self._minute_cumulative_returns")
                 ELSE MinusOne(cumprod(OnePlus(returns)))],
         packet |-> NoPacket, raised |-> "none"]

BenchmarkReturns_start_of_simulation(self, ldg, rate, sessions, bsrc) ==
    LET daily == daily_returns(bsrc, sessions)
        returns == get_range(bsrc, sessions)
    IN  [self |->
            [daily_returns |-> daily,
             daily_cumulative_returns |-> MinusOne(cumprod(OnePlus(daily))),
             minute_returns |->
                 IF rate = "daily" THEN ExplodingObject("self._minute_returns")
                 ELSE GroupedByDay(returns),
             minute_cumulative_returns |->
                 IF rate = "daily"
                 THEN ExplodingObject("self._minute_cumulative_returns")
                 ELSE MinusOne(cumprod(OnePlus(returns)))],
         packet |-> NoPacket, raised |-> "none"]

\* obj[key]: the value, or the exception the subscript raises
Subscript(obj, key) ==
    IF IsExploding(obj) THEN [raised |-> ExplodingError(obj), value |-> NaN]
    ELSE IF ~HasLabel(obj, key) THEN [raised |-> "KeyError", value |-> NaN]
    ELSE [raised |-> "none", value |-> SeriesGetLabel(obj, key)]

\* packet[sub][k] = obj[key]: the right-hand side is evaluated first
WriteLookup(c, sub, k, obj, key) ==
    IF c.raised # "none" THEN c
    ELSE IF Subscript(obj, key).raised # "none"
         THEN [c EXCEPT !.raised = Subscript(obj, key).raised]
         ELSE Write(c, sub, k, Subscript(obj, key).value)

BenchmarkReturns_end_of_bar(self, pkt, ldg, dt) ==
    Result(self,
        WriteLookup(WriteLookup(Call(pkt), "minute_perf", "benchmark_returns",
                                self.minute_returns, dt),
                    "cumulative_perf", "benchmark_returns",
                    self.minute_cumulative_returns, dt))

BenchmarkReturns_end_of_session(self, pkt, ldg, session) ==
    Result(self,
        WriteLookup(WriteLookup(Call(pkt), "daily_perf", "benchmark_returns",
                                self.daily_returns, session),
                    "cumulative_perf", "benchmark_returns",
                    self.daily_cumulative_returns, session))

BenchmarkReturns_end_of_simulation(self, pkt, ldg) ==
    Result(self,
        WriteTop(WriteTop(Call(pkt), "cumulative_algorithm_returns",
                          SeriesGetPos(self.daily_cumulative_returns, -1)),
                 "daily_algorithm_returns", tolist(self.daily_returns)))

(***************************************************************************)
(* Dispatch of one hook over the units, in the collection's iteration      *)
(* order; an exception ends the dispatch.                                  *)
(***************************************************************************)
\* the units of default_metrics() the model carries, by the name it gives them
\* (the fourteen further SimpleLedgerField units of the statistics and leverage
\* fields are left out)
SimpleUnits == {"ending_exposure", "ending_value", "ending_cash", "field"}

StartOfPeriodUnits == {"starting_exposure", "starting_value", "starting_cash", "start_field"}

UnitNames == {"returns", "bench", "pnl", "cash_flow"} \cup SimpleUnits \cup StartOfPeriodUnits

\* the class of a unit
UnitClass(name) ==
    CASE name = "returns" -> "Returns"
      [] name = "bench" -> "BenchmarkReturns"
      [] name = "pnl" -> "PNL"
      [] name = "cash_flow" -> "CashFlow"
      [] name \in SimpleUnits -> "SimpleLedgerField"
      [] name \in StartOfPeriodUnits -> "StartOfPeriodLedgerField"

\* the units as default_metrics() constructs them
default_metrics ==
    [name \in UnitNames |->
        CASE name = "starting_exposure" ->
                 StartOfPeriodLedgerField__init__(<<"portfolio", "positions_exposure">>,
                                                  <<"starting_exposure">>)
          [] name = "ending_exposure" ->
                 SimpleLedgerField__init__(<<"portfolio", "positions_exposure">>,
                                           <<"ending_exposure">>)
          [] name = "starting_value" ->
                 StartOfPeriodLedgerField__init__(<<"portfolio", "positions_exposure">>,
                                                  <<"starting_value">>)
          [] name = "ending_value" ->
                 SimpleLedgerField__init__(<<"portfolio", "positions_value">>,
                                           <<"ending_value">>)
          [] name = "starting_cash" ->
                 StartOfPeriodLedgerField__init__(<<"portfolio", "cash">>, <<"starting_cash">>)
          [] name = "ending_cash" ->
                 SimpleLedgerField__init__(<<"portfolio", "cash">>, <<"ending_cash">>)
          [] name = "start_field" ->
                 StartOfPeriodLedgerField__init__(<<"portfolio", "portfolio_value">>, <<>>)
          [] name = "field" ->
                 SimpleLedgerField__init__(<<"portfolio", "portfolio_value">>, <<>>)
          [] OTHER -> Unset]

start_of_simulation_of(name, self, ldg, rate, sessions, bsrc) ==
    CASE name = "returns" -> Returns_start_of_simulation(self, ldg, rate, sessions, bsrc)
      [] name = "bench" -> BenchmarkReturns_start_of_simulation(self, ldg, rate, sessions, bsrc)
      [] name = "pnl" -> PNL_start_of_simulation(self, ldg, rate, sessions, bsrc)
      [] name = "cash_flow" -> CashFlow_start_of_simulation(self, ldg, rate, sessions, bsrc)
      [] name \in SimpleUnits ->
             SimpleLedgerField_start_of_simulation(self, ldg, rate, sessions, bsrc)
      [] name \in StartOfPeriodUnits ->
             StartOfPeriodLedgerField_start_of_simulation(self, ldg, rate, sessions, bsrc)

end_of_bar_of(name, self, pkt, ldg, dt) ==
    CASE name = "returns" -> Returns_end_of_bar(self, pkt, ldg, dt)
      [] name = "bench" -> BenchmarkReturns_end_of_bar(self, pkt, ldg, dt)
      [] name = "pnl" -> PNL_end_of_bar(self, pkt, ldg, dt)
      [] name = "cash_flow" -> CashFlow_end_of_bar(self, pkt, ldg, dt)
      [] name \in SimpleUnits -> SimpleLedgerField_end_of_bar(self, pkt, ldg, dt)
      [] name \in StartOfPeriodUnits -> StartOfPeriodLedgerField_end_of_bar(self, pkt, ldg, dt)

end_of_session_of(name, self, pkt, ldg, session) ==
    CASE name = "returns" -> Returns_end_of_session(self, pkt, ldg, session)
      [] name = "bench" -> BenchmarkReturns_end_of_session(self, pkt, ldg, session)
      [] name = "pnl" -> PNL_end_of_session(self, pkt, ldg, session)
      [] name = "cash_flow" -> CashFlow_end_of_session(self, pkt, ldg, session)
      [] name \in SimpleUnits -> SimpleLedgerField_end_of_session(self, pkt, ldg, session)
      [] name \in StartOfPeriodUnits ->
             StartOfPeriodLedgerField_end_of_session(self, pkt, ldg, session)

end_of_simulation_of(name, self, pkt, ldg) ==
    CASE name = "returns" -> Returns_end_of_simulation(self, pkt, ldg)
      [] name = "bench" -> BenchmarkReturns_end_of_simulation(self, pkt, ldg)
      [] name = "pnl" -> PNL_end_of_simulation(self, pkt, ldg)
      [] name \in SimpleUnits -> SimpleLedgerField_end_of_simulation(self, pkt, ldg)

\* one unit's hook; arg is the session, the dt, or unused
HookOf(hook, name, self, pkt, ldg, arg, sessions) ==
    CASE hook = "start_of_simulation" ->
             start_of_simulation_of(name, self, ldg, emission_rate, sessions, benchmark_source)
      [] hook = "end_of_bar" -> end_of_bar_of(name, self, pkt, ldg, arg)
      [] hook = "end_of_session" -> end_of_session_of(name, self, pkt, ldg, arg)
      [] hook = "end_of_simulation" -> end_of_simulation_of(name, self, pkt, ldg)

\* for impl in registered: impl(*args)
RECURSIVE DispatchUnits(_, _, _, _, _, _, _)
DispatchUnits(hook, ord, us, pkt, ldg, arg, sessions) ==
    IF ord = <<>> THEN [units |-> us, packet |-> pkt, raised |-> "none"]
    ELSE IF ~Implements(UnitClass(Head(ord)), hook)
    THEN DispatchUnits(hook, Tail(ord), us, pkt, ldg, arg, sessions)
    ELSE LET r == HookOf(hook, Head(ord), us[Head(ord)], pkt, ldg, arg, sessions)
             pkt2 == IF hook = "start_of_simulation" THEN pkt ELSE r.packet
             us2 == [us EXCEPT ![Head(ord)] = r.self]
         IN  IF r.raised # "none"
             THEN [units |-> us2, packet |-> pkt2, raised |-> r.raised]
             ELSE DispatchUnits(hook, Tail(ord), us2, pkt2, ldg, arg, sessions)

(***************************************************************************)
(* The units under their hook protocol: start_of_simulation once, then     *)
(* per session its bars and its close, in calendar order, then             *)
(* end_of_simulation.  The ledger changes between the hooks.               *)
(***************************************************************************)
\* returns of a session, of the algorithm or of the benchmark
ReturnValues == {RDiv(-1, 2), RDiv(1, 2)}

PnlValues == {-50, 0, 50}

\* the ledger's read model when the portfolio has made p.  A gain comes from
\* shares bought for 100, a loss from a futures contract of notional 200 (no
\* value of its own, its loss paid in cash); without either the book is flat.
LedgerWith(p, dr) ==
    [pnl |-> p, portfolio_value |-> capital_base + p, returns |-> RDiv(p, capital_base),
     daily_returns |-> dr,
     cash_flow |-> IF p > 0 THEN -100 ELSE p,
     cash |-> capital_base + (IF p > 0 THEN -100 ELSE p),
     positions_value |-> IF p > 0 THEN 100 + p ELSE 0,
     positions_exposure |-> IF p > 0 THEN 100 + p ELSE IF p < 0 THEN 200 ELSE 0]

\* iteration orders of the metric collection
Orders == {<<"returns", "bench", "pnl", "cash_flow", "starting_exposure", "ending_exposure",
             "starting_value", "ending_value", "starting_cash", "ending_cash",
             "start_field", "field">>,
           <<"bench", "returns", "cash_flow", "pnl", "field", "start_field",
             "ending_cash", "starting_cash", "ending_value", "starting_value",
             "ending_exposure", "starting_exposure">>,
           <<"pnl", "field", "start_field", "starting_value", "ending_value",
             "cash_flow", "ending_exposure", "starting_exposure", "starting_cash",
             "ending_cash", "bench", "returns">>}

\* the unit specification's range starts at a session whose label is not its
\* position in the range
FirstUnitSession == CalLast - 2

Sessions == sessions_in_range(first_session, last_session)

NumSessions == last_session - first_session + 1

\* packet handed to end_of_bar: one holding the two mappings the hooks write
\* into (handle_minute_close itself passes an empty dict, tracker.py line 182)
BarPacket == [kind |-> "minute_close", minute_perf |-> EmptyMap, cumulative_perf |-> EmptyMap]

SimulationEndPacket == [kind |-> "simulation_end"]

UnitInit ==
    /\ emission_rate \in EmissionRates
    /\ first_session = FirstUnitSession
    /\ last_session \in first_session..(first_session + MaxSessions - 1)
    /\ capital_base \in CapitalBases
    /\ order \in Orders
    /\ benchmark_source \in [1..(last_session - first_session + 1) -> ReturnValues]
    /\ \E dr \in [1..(last_session - first_session + 1) -> ReturnValues] :
           ledger = LedgerWith(0, SeriesOf(dr, sessions_in_range(first_session,
                                                                 last_session)))
    /\ units = default_metrics
    /\ upc = "new"
    /\ closed = 0
    /\ bars = 0
    /\ last_call = [op |-> "none", arg |-> None]
    /\ packet = NoPacket
    /\ raised = "none"
    /\ tpc = "off"
    /\ metrics = <<>>
    /\ caller_metrics = <<>>
    /\ hook_impls = NoHooks
    /\ current_session = None
    /\ market_open = None
    /\ market_close = None
    /\ session_count = 0
    /\ total_session_count = 0
    /\ log = <<>>
    /\ call_start = 0

\* start_of_simulation(ledger, emission_rate, trading_calendar, sessions, benchmark_source)
UnitsStartOfSimulation ==
    /\ upc = "new"
    /\ \E d \in {DispatchUnits("start_of_simulation", order, units, NoPacket, ledger,
                                None, Sessions)} :
           /\ units' = d.units
           /\ raised' = d.raised
           /\ packet' = NoPacket
    /\ upc' = "started"
    /\ last_call' = [op |-> "start_of_simulation", arg |-> None]
    /\ UNCHANGED <<order, ledger, benchmark_source, closed, bars>>
    /\ UNCHANGED inputVars
    /\ UNCHANGED trackerVars

\* the caller applies transactions, commissions, ... to the ledger, before the
\* close of the period they belong to
LedgerUpdate ==
    /\ upc = "started"
    /\ closed < NumSessions
    /\ \E p \in PnlValues :
           /\ p # ledger.pnl
           /\ ledger' = LedgerWith(p, ledger.daily_returns)
    /\ last_call' = [op |-> "ledger", arg |-> None]
    /\ packet' = NoPacket
    /\ raised' = "none"
    /\ UNCHANGED <<upc, order, benchmark_source, units, closed, bars>>
    /\ UNCHANGED inputVars
    /\ UNCHANGED trackerVars

\* end_of_bar(packet, ledger, dt, data_portal)
UnitsEndOfBar ==
    /\ upc = "started"
    /\ closed < NumSessions
    /\ bars < MaxBars
    /\ \E d \in {DispatchUnits("end_of_bar", order, units, BarPacket, ledger,
                                <<first_session + closed, bars + 1>>, Sessions)} :
           /\ units' = d.units
           /\ raised' = d.raised
           /\ packet' = d.packet
           /\ last_call' = [op |-> "end_of_bar", arg |-> first_session + closed]
    /\ bars' = bars + 1
    /\ UNCHANGED <<upc, order, ledger, benchmark_source, closed>>
    /\ UNCHANGED inputVars
    /\ UNCHANGED trackerVars

\* end_of_session(packet, ledger, session, data_portal)
UnitsEndOfSession ==
    /\ upc = "started"
    /\ closed < NumSessions
    /\ \E d \in {DispatchUnits("end_of_session", order, units,
                                market_close_packet(
                                    open_and_close_for_session(first_session + closed)[1],
                                    open_and_close_for_session(first_session + closed)[2]),
                                ledger, first_session + closed, Sessions)} :
           /\ units' = d.units
           /\ raised' = d.raised
           /\ packet' = d.packet
           /\ last_call' = [op |-> "end_of_session", arg |-> first_session + closed]
    /\ closed' = closed + 1
    /\ bars' = 0
    /\ UNCHANGED <<upc, order, ledger, benchmark_source>>
    /\ UNCHANGED inputVars
    /\ UNCHANGED trackerVars

\* end_of_simulation(packet, ledger)
UnitsEndOfSimulation ==
    /\ upc = "started"
    /\ closed = NumSessions
    /\ \E d \in {DispatchUnits("end_of_simulation", order, units, SimulationEndPacket,
                                ledger, None, Sessions)} :
           /\ units' = d.units
           /\ raised' = d.raised
           /\ packet' = d.packet
    /\ upc' = "ended"
    /\ last_call' = [op |-> "end_of_simulation", arg |-> None]
    /\ UNCHANGED <<order, ledger, benchmark_source, closed, bars>>
    /\ UNCHANGED inputVars
    /\ UNCHANGED trackerVars

UnitNext ==
    \/ UnitsStartOfSimulation
    \/ LedgerUpdate
    \/ UnitsEndOfBar
    \/ UnitsEndOfSession
    \/ UnitsEndOfSimulation

UnitSpec == UnitInit /\ [][UnitNext]_vars

(***************************************************************************)
(* The engine: a tracker with the metrics its caller supplies, or the      *)
(* default units under their hook protocol.                                *)
(***************************************************************************)
EngineInit == TrackerInit \/ UnitInit

EngineNext == Next \/ UnitNext

EngineSpec == EngineInit /\ [][EngineNext]_vars

(***************************************************************************)
(* Properties of the tracker, stated for Spec.                              *)
(***************************************************************************)
Constructed == tpc \in {"ready", "ended"}

\* the calls the last tracker operation made, in order
LastCallLog == SubSeq(log, call_start + 1, Len(log))

\* the arguments of the calls of `hook` on metric m, in order
ArgsOf(hook, m) ==
    LET hits == SelectSeq(log, LAMBDA e : e.hook = hook /\ e.metric = m)
    IN  [i \in 1..Len(hits) |-> hits[i].arg]

MetricIds == 1..Len(metrics)

\* C1: after k handle_market_close calls every metric's end_of_session hook has
\* been dispatched with the sessions s_0, ..., s_{k-1} of the range, in that
\* order: each session closed exactly once, none skipped, none repeated.
C1_SessionsClosedOnceInOrder ==
    Constructed =>
        \A m \in MetricIds :
            Implements(metrics[m], "end_of_session") =>
                ArgsOf("end_of_session", m) =
                    [i \in 1..session_count |-> first_session + i - 1]

\* C2: once construction has been attempted, every registered metric that
\* implements start_of_simulation has had that hook fire exactly once, and
\* before any other hook of any metric.
C2_StartFiresOnceBeforeAnyHook ==
    tpc # "new" =>
        /\ \A m \in MetricIds :
               Implements(metrics[m], "start_of_simulation") =>
                   Len(ArgsOf("start_of_simulation", m)) = 1
        /\ \A i, j \in 1..Len(log) :
               (log[i].hook = "start_of_simulation"
                    /\ log[j].hook \in {"end_of_bar", "end_of_session", "end_of_simulation"})
               => i < j

\* C3: in daily emission no metric's end_of_bar hook is ever dispatched.
C3_NoBarHookInDailyMode ==
    emission_rate = "daily" =>
        \A i \in 1..Len(log) : log[i].hook # "end_of_bar"

\* C4: in daily mode progress never decreases from one tracker call to the next
\* and is exactly 1 once session_count = total_session_count; in minute mode it
\* is exactly 1 in every state.
C4_ProgressStates ==
    Constructed =>
        /\ emission_rate = "minute" => progress = RInt(1)
        /\ (emission_rate = "daily" /\ session_count = total_session_count)
               => progress = RInt(1)

\* C4: the state part above in every state, and progress non-decreasing over
\* every step of a daily tracker.
C4_Progress ==
    /\ []C4_ProgressStates
    /\ [][(tpc = "ready" /\ emission_rate = "daily") => RLeq(progress, progress')]_vars

C4_Witness ==
    /\ tpc = "ready"
    /\ emission_rate = "daily"
    /\ last_call.op = "handle_market_close"
    /\ total_session_count >= 2
    /\ session_count = total_session_count
    /\ progress = RInt(1)

\* C5: when the calendar has no session after the one being closed,
\* handle_market_close raises nothing: it runs the ledger's end_of_session and
\* the end_of_session dispatch for that session, returns the packet, and leaves
\* current_session where it was.
C5_CalendarExhaustionIsNotAFailure ==
    (last_call.op = "handle_market_close" /\ NoFurtherData(last_call.arg)) =>
        /\ raised = "none"
        /\ packet.kind = "market_close"
        /\ packet.daily_perf.period_close = open_and_close_for_session(last_call.arg)[2]
        /\ LET tail == IF emission_rate = "daily" THEN Tail(LastCallLog) ELSE LastCallLog
               reg == registered(metrics, "end_of_session")
           IN  /\ tail = <<LedgerCall("ledger.end_of_session", last_call.arg)>>
                         \o [i \in 1..Len(reg) |->
                                HookCall("end_of_session", reg[i], last_call.arg)]
        /\ current_session = last_call.arg

C5_Witness ==
    /\ last_call.op = "handle_market_close"
    /\ NoFurtherData(last_call.arg)
    /\ registered(metrics, "end_of_session") # <<>>
    /\ Len(LastCallLog) >= 2
    /\ packet.kind = "market_close"
    /\ current_session = CalLast

\* a run of the end-to-end scenario: three sessions, starting capital 100000,
\* metrics of the default set with the PnL unit among them
ZeroSimulation ==
    /\ capital_base = 100000
    /\ last_session - first_session + 1 = 3
    /\ \A m \in MetricIds : metrics[m] \in DefaultKinds
    /\ \E m \in MetricIds : metrics[m] = "PNL"

\* C12: a 3-session simulation over default metrics with starting capital
\* 100000 and a ledger that stays at zero runs through: construction, each of
\* the three session closes and the simulation end return normally, the
\* closes with a session packet and the end with a simulation-end packet
\* after three closed sessions.
C12_ZeroSimulationYieldsPackets ==
    (ZeroSimulation /\ tpc # "new") =>
        /\ raised = "none"
        /\ tpc \in {"ready", "ended"}
        /\ last_call.op = "handle_market_close" => packet.kind = "market_close"
        /\ tpc = "ended" => (packet.kind = "simulation_end" /\ session_count = 3)

\* C13: in minute emission every handle_minute_close returns normally, and
\* when a registered metric implements end_of_bar the returned packet has the
\* minute_perf and cumulative_perf mappings the hooks write into.
C13_MinuteClosePacketIsFilled ==
    (emission_rate = "minute" /\ last_call.op = "handle_minute_close") =>
        /\ raised = "none"
        /\ registered(metrics, "end_of_bar") # <<>> =>
               {"minute_perf", "cumulative_perf"} \subseteq DOMAIN packet

\* C14: once construction has been attempted, every metric that implements
\* start_of_simulation has been called once, with the five arguments of the
\* hook contract in order, the ledger first.
C14_StartHookGetsFiveArguments ==
    tpc # "new" =>
        \A m \in MetricIds :
            Implements(metrics[m], "start_of_simulation") =>
                ArgsOf("start_of_simulation", m) = <<start_of_simulation_params>>

\* positions in the log of the ledger call `op` with argument `arg`
LedgerCallsAt(op, arg) ==
    {i \in 1..Len(log) : log[i] = LedgerCall(op, arg)}

\* C15: for every session s_k, k >= 1, whose predecessor's close has been
\* followed by a further close, the ledger has been told exactly once to apply
\* the dividends payable as of s_k, after the close of s_{k-1} and before the
\* close of s_k.
C15_DividendsOncePerLaterSession ==
    Constructed =>
        \A k \in 1..(session_count - 1) :
            LET s == first_session + k
                paid == LedgerCallsAt("ledger.process_dividends", s)
            IN  /\ Cardinality(paid) = 1
                /\ \A i \in paid :
                       /\ \E j \in LedgerCallsAt("ledger.end_of_session", s - 1) : j < i
                       /\ \A j \in LedgerCallsAt("ledger.end_of_session", s) : i < j

\* the hook a tracker operation dispatches, and the argument it passes on
HookOfOp(op) ==
    CASE op = "handle_minute_close" -> "end_of_bar"
      [] op = "handle_market_close" -> "end_of_session"
      [] op = "handle_simulation_end" -> "end_of_simulation"

\* the hook calls among the calls of the last tracker operation
LastHookCalls == SelectSeq(LastCallLog, LAMBDA e : e.metric # 0)

\* one call per metric that implemented the hook when the tracker was built,
\* in registration order
CallsBoundAtConstruction(hook, arg) ==
    LET reg == registered(metrics, hook)
    IN  [i \in 1..Len(reg) |-> HookCall(hook, reg[i], arg)]

ReadEntry(entry, progress_now) ==
    IF entry = "self.progress" THEN progress_now ELSE entry

\* a daily tracker whose last operation returned a session packet
HoldsSessionPacket ==
    /\ emission_rate = "daily"
    /\ last_call.op = "handle_market_close"
    /\ raised = "none"

\* C19: the progress entry of the packet of the k-th handle_market_close of a
\* daily tracker reads k / total_session_count when the packet is returned,
\* and still reads that after the tracker's next operation.
C19_PacketProgressIsFixed ==
    /\ [](HoldsSessionPacket =>
             ReadEntry(packet.progress, progress)
                 = RDiv(session_count, total_session_count))
    /\ [][HoldsSessionPacket =>
             ReadEntry(packet.progress, progress')
                 = RDiv(session_count, total_session_count)]_vars

(***************************************************************************)
(* Properties of the metric units, stated for UnitSpec.                    *)
(***************************************************************************)
Started == upc \in {"started", "ended"}

\* (1 + r_1) * ... * (1 + r_n), folded from the right
RECURSIVE Compounded(_)
Compounded(rs) ==
    IF rs = <<>> THEN RInt(1)
    ELSE RMul(RAdd(RInt(1), Head(rs)), Compounded(Tail(rs)))

RECURSIVE SumSeq(_)
SumSeq(xs) == IF xs = <<>> THEN 0 ELSE Head(xs) + SumSeq(Tail(xs))

\* place of a session in the range, counted from 1
Ordinal(session) == session - first_session + 1

\* C6: for the benchmark unit started in daily mode, start_of_simulation
\* succeeds, every end_of_session finds the session's return and its compounded
\* return in the precomputed daily series, and every end_of_bar fails with an
\* error naming the minute field, writing no benchmark value.
C6_DailyBenchmarkDefersFailure ==
    emission_rate = "daily" =>
        /\ last_call.op = "start_of_simulation" =>
               /\ raised = "none"
               /\ tolist(units["bench"].daily_returns) = benchmark_source
        /\ last_call.op = "end_of_session" =>
               /\ raised = "none"
               /\ packet.daily_perf["benchmark_returns"]
                      = benchmark_source[Ordinal(last_call.arg)]
               /\ packet.cumulative_perf["benchmark_returns"]
                      = RSub(Compounded(SubSeq(benchmark_source, 1, Ordinal(last_call.arg))),
                             RInt(1))
        /\ last_call.op = "end_of_bar" =>
               /\ raised = "ExplodingObject accessed: self._minute_returns"
               /\ "benchmark_returns" \notin DOMAIN packet.minute_perf
               /\ "benchmark_returns" \notin DOMAIN packet.cumulative_perf

C6_Witness ==
    /\ emission_rate = "daily"
    /\ last_call.op = "end_of_bar"
    /\ closed = 1
    /\ raised = "ExplodingObject accessed: self._minute_returns"
    /\ units["bench"].daily_cumulative_returns.values[1] # RInt(0)

\* C7: before the first end_of_session the PnL unit's in-period delta is the
\* ledger's cumulative pnl: as computed, as written to minute_perf.pnl by
\* end_of_bar, and as written to daily_perf.pnl by the first end_of_session.
C7_FirstPeriodDeltaIsCumulativePnl ==
    /\ (upc = "started" /\ closed = 0) =>
           PNL_compute_pnl_in_period(units["pnl"], ledger) = ledger.pnl
    /\ (last_call.op = "end_of_bar" /\ closed = 0
            /\ "pnl" \in DOMAIN packet.minute_perf) =>
           packet.minute_perf["pnl"] = ledger.pnl
    /\ (last_call.op = "end_of_session" /\ closed = 1 /\ raised = "none") =>
           packet.daily_perf["pnl"] = ledger.pnl

C7_Witness ==
    /\ last_call.op = "end_of_bar"
    /\ closed = 0
    /\ NumSessions >= 2
    /\ capital_base = 100000
    /\ "pnl" \in DOMAIN packet.minute_perf
    /\ packet.minute_perf["pnl"] = 50
    /\ units["pnl"].pnl_index = -1

\* C8: in the simulation-end packet the entries of daily_pnl sum to total_pnl.
C8_DailyPnlSumsToTotal ==
    (last_call.op = "end_of_simulation" /\ raised = "none") =>
        SumSeq(packet["daily_pnl"]) = packet["total_pnl"]

\* C9: in the simulation-end packet cumulative_algorithm_returns is the product
\* of (1 + r) over the entries r of daily_algorithm_returns, minus one.
C9_CompoundingIdentity ==
    (last_call.op = "end_of_simulation" /\ raised = "none") =>
        packet["cumulative_algorithm_returns"]
            = RSub(Compounded(packet["daily_algorithm_returns"]), RInt(1))

C9_Witness ==
    /\ last_call.op = "end_of_simulation"
    /\ raised = "none"
    /\ Len(packet["daily_algorithm_returns"]) >= 2
    /\ packet["daily_algorithm_returns"][1] # packet["daily_algorithm_returns"][2]
    /\ packet["cumulative_algorithm_returns"] = RDiv(-1, 4)

\* C10: once started, the field-copy unit's history and the PnL unit's history
\* have exactly one entry per session of [first_session, last_session].
C10_HistoryLengthIsSessionCount ==
    Started =>
        /\ Len(units["field"].daily_value.values) = NumSessions
        /\ Len(units["field"].daily_value.index) = NumSessions
        /\ Len(units["pnl"].pnl.values) = NumSessions
        /\ Len(units["pnl"].pnl.index) = NumSessions

C10_Witness ==
    /\ upc = "ended"
    /\ NumSessions >= 2
    /\ closed = NumSessions
    /\ tolist(units["field"].daily_value) = <<capital_base + 50, capital_base - 50>>
    /\ tolist(units["pnl"].pnl) = <<50, -50>>

\* the hook the protocol allows next, and its arguments
NextHooks ==
    IF closed < NumSessions THEN {"end_of_bar", "end_of_session"} ELSE {"end_of_simulation"}

\* the dispatch of `hook` from the present state, the units taken in order `ord`
DispatchIn(hook, ord) ==
    CASE hook = "end_of_bar" ->
             DispatchUnits(hook, ord, units, BarPacket, ledger,
                           <<first_session + closed, bars + 1>>, Sessions)
      [] hook = "end_of_session" ->
             DispatchUnits(hook, ord, units,
                           market_close_packet(
                               open_and_close_for_session(first_session + closed)[1],
                               open_and_close_for_session(first_session + closed)[2]),
                           ledger, first_session + closed, Sessions)
      [] hook = "end_of_simulation" ->
             DispatchUnits(hook, ord, units, SimulationEndPacket, ledger, None, Sessions)

\* C11: from any state of a started simulation, the packet a hook's dispatch
\* over the default units produces is the same in every iteration order of
\* the metric set (whenever the dispatch returns normally).
C11_PacketIndependentOfOrder ==
    upc = "started" =>
        \A hook \in NextHooks :
            \A a \in {DispatchIn(hook, order)} :
                a.raised = "none" =>
                    \A o \in Orders :
                        \A b \in {DispatchIn(hook, o)} :
                            b.raised = "none" => b.packet = a.packet

\* the start/end-of-period pairs of the default set
PeriodPairs == {<<"starting_exposure", "ending_exposure">>,
                <<"starting_value", "ending_value">>,
                <<"starting_cash", "ending_cash">>}

\* C16: for each start/end-of-period pair, the starting_* value written into
\* daily_perf at the close of a session is the ending_* value written at the
\* close of the session before it, and at the first close it is the value the
\* ledger had at start_of_simulation.
C16_StartingIsPreviousEnding ==
    (last_call.op = "end_of_session" /\ raised = "none") =>
        \A pair \in PeriodPairs :
            packet.daily_perf[pair[1]] =
                IF closed = 1
                THEN attrgetter(units[pair[2]].ledger_field,
                                LedgerWith(0, ledger.daily_returns))
                ELSE SeriesGetLabel(units[pair[2]].daily_value, last_call.arg - 1)

\* C17: in the simulation-end packet cumulative_algorithm_returns is the
\* product of (1 + ledger.daily_returns[s]) over all sessions minus one, and
\* daily_algorithm_returns is the ledger's daily-return sequence, in every
\* dispatch order.
C17_AlgorithmReturnsAreTheLedgers ==
    (last_call.op = "end_of_simulation" /\ raised = "none") =>
        /\ packet["cumulative_algorithm_returns"]
               = RSub(Compounded(tolist(ledger.daily_returns)), RInt(1))
        /\ packet["daily_algorithm_returns"] = tolist(ledger.daily_returns)

(***************************************************************************)
(* Properties of tracker and units together, stated for EngineSpec.        *)
(***************************************************************************)
\* C20: a handle_minute_close leaves current_session, session_count and the
\* cached market open and close as they were, and an end_of_bar dispatch over
\* the default units leaves every unit's private state as it was.
C20_BarCloseIsReadOnly ==
    [][/\ last_call'.op = "handle_minute_close" =>
              UNCHANGED <<current_session, session_count, market_open, market_close>>
       /\ last_call'.op = "end_of_bar" => UNCHANGED units]_vars

C20_Witness ==
    /\ last_call.op = "end_of_bar"
    /\ raised = "none"
    /\ closed = 1
    /\ bars = MaxBars
    /\ units["cash_flow"].previous_cash_flow # ledger.cash_flow
    /\ units["returns"].previous_total_returns # ledger.returns
    /\ units["pnl"].pnl_index = 0
    /\ packet.minute_perf["pnl"] = ledger.pnl - 50
    /\ packet.minute_perf["starting_cash"] # ledger.cash

====
